---- MODULE Spec2Model ----
(***************************************************************************)
(* Model of streamlit_app.py: three cached HTTP GET wrappers               *)
(* (fetch_departments, search_ids, fetch_object) and the Streamlit script  *)
(* that drives them.  One script run is split at its network calls:        *)
(* Sidebar (lines 53-68, 95-105), Search (lines 70-78) and one FetchStep   *)
(* per iteration of the render loop (lines 81-94).  Tick lets time pass.   *)
(*                                                                         *)
(* Python values: None is <<>>, an optional value x is <<x>>; a string is  *)
(* a sequence of one-character strings (labels: a sequence of tokens).     *)
(***************************************************************************)
EXTENDS Integers, Sequences, FiniteSets, TLC

VARIABLES
    now,          \* wall clock read by the st.cache_data TTL caches
    deptCache,    \* cache of fetch_departments: set of [key, val, at], key <<>>
    searchCache,  \* cache of search_ids: set of [key, val, at], one per key
    objCache,     \* cache of fetch_object: set of [key, val, at], one per key
    runs,         \* number of script runs started so far
    pc,           \* position of the current script run
    q,            \* text_input "Keyword" (line 55)
    max_n,        \* slider value (line 56)
    has_images,   \* toggle value (line 57)
    options,      \* options returned by fetch_departments (line 59)
    mapping,      \* mapping returned by fetch_departments (line 59)
    dept_id,      \* mapping.get(choice) (line 61)
    search_btn,   \* the button was pressed (line 63)
    notice,       \* st.warning / st.info shown by the run
    exc,          \* uncaught exception that ended the run: <<>> or <<function, type>>
    ids,          \* ids returned by search_ids (line 71)
    total,        \* total returned by search_ids (line 71)
    i,            \* loop index of the render loop (line 81)
    fetched,      \* values fetch_object returned in this run, by loop index
    rendered,     \* cards drawn in this run, in drawing order
    catResp,      \* response to this run's GET /departments: <<>> if none sent
    searchCalled, \* search_ids was invoked in this run
    searchReq,    \* query parameters of this run's GET /search: <<>> if none sent
    searchResp,   \* response head of this run's GET /search: <<>> if none sent
    objReqs,      \* number of GET /objects/{id} sent in this run
    objResp,      \* response to the last GET /objects/{id} of this run: <<>> if none
    searchHist,   \* per key, the last GET /search that returned: [key, val, at]
    deptHist      \* the last GET /departments: <<>> or <<[failed, at]>>

vars == <<now, deptCache, searchCache, objCache, runs, pc, q, max_n, has_images,
          options, mapping, dept_id, search_btn, notice, exc, ids, total, i,
          fetched, rendered, catResp, searchCalled, searchReq, searchResp,
          objReqs, objResp, searchHist, deptHist>>

-----------------------------------------------------------------------------
(* Bounds of the model *)

MaxRuns == 2
MaxQLen == 2
MaxIds == 3
MaxDepts == 2
MaxTime == 90
MaxTimeHour == 3700
TickShort == 30
TickLong == 1800

(* Program constants *)

TTL_DEPARTMENTS == 3600
TTL_SEARCH == 60
TTL_OBJECT == 3600
SLIDER_MIN == 1
SLIDER_MAX == 60
N_COLS == 3

None == <<>>
Some(x) == <<x>>

-----------------------------------------------------------------------------
(* Python values *)

Digits == <<"0", "1", "2", "3", "4", "5", "6", "7", "8", "9">>

RECURSIVE Str(_)
\* str(n) of a non-negative integer, as the f-string of line 23 formats it
Str(n) == IF n < 10 THEN <<Digits[n + 1]>>
          ELSE Str(n \div 10) \o <<Digits[(n % 10) + 1]>>

\* str(x) of an optional integer: None prints as "None"
StrOpt(x) == IF x = None THEN <<"None">> ELSE Str(x[1])

\* truth value of an optional integer (None and 0 are falsy)
TruthyInt(x) == x # None /\ x[1] # 0

Whitespace == {" ", "\t"}

RECURSIVE LStrip(_)
LStrip(s) == IF s # <<>> /\ Head(s) \in Whitespace THEN LStrip(Tail(s)) ELSE s

RECURSIVE RStrip(_)
RStrip(s) == IF s # <<>> /\ s[Len(s)] \in Whitespace
             THEN RStrip(SubSeq(s, 1, Len(s) - 1)) ELSE s

\* str.strip() (lines 66 and 71)
Strip(s) == RStrip(LStrip(s))

Min(a, b) == IF a < b THEN a ELSE b

\* ids[:n] (line 81)
Slice(s, n) == SubSeq(s, 1, Min(n, Len(s)))

SeqsUpTo(S, n) == UNION {[1..k -> S] : k \in 0..n}

-----------------------------------------------------------------------------
(* HTTP: what requests.get hands back.  kind "neterr" is a timeout or a     *)
(* connection error (requests raises); kind "resp" is a final response.     *)
(* The service answers with a success (200, 204), a client error (404) or   *)
(* a server error (500); redirects are followed inside requests.get.        *)

HttpStatuses == {200, 204, 404, 500}

\* Response.raise_for_status(): raises HTTPError for 4xx and 5xx
RaisesForStatus(status) == status >= 400 /\ status < 600

Raise(e, v) == [exc |-> e, val |-> v]
Return(v) == [exc |-> "none", val |-> v]

-----------------------------------------------------------------------------
(* st.cache_data(ttl=...): a read-through cache keyed by the arguments.     *)
(* An entry is valid while now < at + ttl; only returned values are stored, *)
(* a call that raises stores nothing.                                       *)

FreshLate(at, ttl) == now - at <= ttl

Fresh(at, ttl) == now - at < ttl

CacheLive(cache, k, ttl) == {e \in cache : e.key = k /\ Fresh(e.at, ttl)}

CachePut(cache, k, v) ==
    {e \in cache : e.key # k} \cup {[key |-> k, val |-> v, at |-> now]}

\* the responses a call can meet: on a hit no request is sent, so none matters
Responses(cache, k, ttl, outs) ==
    IF CacheLive(cache, k, ttl) # {} THEN {CHOOSE o \in outs : TRUE} ELSE outs

\* The decorated call: [hit, exc, val, cache'] given what the body would do
CachedCall(cache, k, ttl, body) ==
    LET live == CacheLive(cache, k, ttl) IN
    IF live # {}
    THEN [hit |-> TRUE, exc |-> "none", val |-> (CHOOSE e \in live : TRUE).val,
          cache |-> cache]
    ELSE [hit |-> FALSE, exc |-> body.exc, val |-> body.val,
          cache |-> IF body.exc = "none" THEN CachePut(cache, k, body.val)
                    ELSE cache]

-----------------------------------------------------------------------------
(* fetch_departments (lines 12-28) *)

ALL == <<"All Departments">>

\* lines 20-21 and line 28
Fallback == [options |-> <<ALL>>, mapping |-> (ALL :> None)]

\* mapping[label] = v
DictSet(m, k, v) == [x \in DOMAIN m \cup {k} |-> IF x = k THEN v ELSE m[x]]

LabelNameOnly(d) == IF d.name = None THEN <<"Unknown">> ELSE d.name[1]

\* line 23: f"{d.get('displayName','Unknown')} ({d.get('departmentId')})"
Label(d) ==
    (IF d.name = None THEN <<"Unknown">> ELSE d.name[1])
        \o <<" (">> \o StrOpt(d.id) \o <<")">>

RECURSIVE DeptLoop(_, _, _)
\* lines 22-26: d.get on an entry that is no record raises AttributeError
DeptLoop(depts, opts, map) ==
    IF depts = <<>> THEN Return([options |-> opts, mapping |-> map])
    ELSE LET d == Head(depts) IN
         IF ~d.rec THEN Raise("AttributeError", Fallback)
         ELSE DeptLoop(Tail(depts), Append(opts, Label(d)),
                       DictSet(map, Label(d), d.id))

\* lines 16-26, the body of the try
TryDepartments(out) ==
    IF out.kind = "neterr" THEN Raise("ConnectionError", Fallback)
    ELSE IF RaisesForStatus(out.status) THEN Raise("HTTPError", Fallback)
    ELSE IF out.body.json = "notjson" THEN Raise("JSONDecodeError", Fallback)
    ELSE IF out.body.json = "scalar" THEN Raise("AttributeError", Fallback)
    ELSE LET depts ==  \* (r.json() or {}).get("departments", [])
                 IF out.body.json = "null" \/ out.body.depts = "absent"
                 THEN [t |-> "list", list |-> <<>>]
                 ELSE [t |-> out.body.depts, list |-> out.body.list]
         IN  IF depts.t \in {"null", "number"} THEN Raise("TypeError", Fallback)
             ELSE IF depts.t = "string" THEN Raise("AttributeError", Fallback)
             ELSE DeptLoop(depts.list, Fallback.options, Fallback.mapping)

ExceptRequestsOnly(e) == e \in {"ConnectionError", "HTTPError", "JSONDecodeError"}

\* line 27: except Exception
ExceptException(e) == e # "none"

\* lines 15-28
FetchDepartmentsBody(out) ==
    LET t == TryDepartments(out) IN
    IF t.exc # "none" /\ ExceptException(t.exc) THEN Return(Fallback) ELSE t

FetchDepartmentsForgetFallback(out) ==
    LET call == CachedCall(deptCache, <<>>, TTL_DEPARTMENTS, FetchDepartmentsBody(out))
    IN  IF ~call.hit /\ call.val = Fallback
        THEN [call EXCEPT !.cache = deptCache] ELSE call

\* line 12: @st.cache_data(ttl=3600), no arguments: one global entry
FetchDepartments(out) ==
    CachedCall(deptCache, <<>>, TTL_DEPARTMENTS, FetchDepartmentsBody(out))

(* Catalog responses *)

DeptNames == {None, Some(<<"A">>)}
DeptIds == {None, Some(0), Some(1)}
DeptEntries ==
    {[rec |-> FALSE, name |-> None, id |-> None]}
        \cup {[rec |-> TRUE, name |-> n, id |-> d] : n \in DeptNames, d \in DeptIds}

NoBody == [json |-> "notjson", depts |-> "absent", list |-> <<>>]

CatalogBodies ==
    {[json |-> j, depts |-> "absent", list |-> <<>>] :
        j \in {"notjson", "null", "scalar", "object"}}
    \cup {[json |-> "object", depts |-> t, list |-> <<>>] :
        t \in {"null", "number", "string"}}
    \cup {[json |-> "object", depts |-> "list", list |-> l] :
        l \in SeqsUpTo(DeptEntries, MaxDepts)}

NetErr == [kind |-> "neterr", status |-> 0, body |-> NoBody]

CatalogOutcomes ==
    {NetErr} \cup
    {[kind |-> "resp", status |-> st, body |-> b] :
        st \in HttpStatuses, b \in CatalogBodies}

\* the catalog is unreachable, or a department A with each identifier
PlainCatalogs ==
    {NetErr,
     [kind |-> "resp", status |-> 200,
      body |-> [json |-> "object", depts |-> "list",
                list |-> [k \in 1..2 |->
                    [rec |-> TRUE, name |-> Some(<<"A">>), id |-> Some(k - 1)]]]]}

-----------------------------------------------------------------------------
(* search_ids (lines 30-39) *)

\* lines 33-35: the query parameters; departmentId <<>> means "not sent"
SearchParams(qs, h, d) ==
    [q |-> qs, hasImages |-> h, departmentId |-> IF TruthyInt(d) THEN d ELSE None]

\* line 31: the arguments st.cache_data hashes
SearchKey(qs, h, d) == <<qs, h, d>>

SearchIdsBodySwallow(out) ==
    LET nothing == [ids |-> <<>>, total |-> 0] IN
    IF out.kind = "neterr" \/ RaisesForStatus(out.status) THEN Return(nothing)
    ELSE IF out.body.json \in {"notjson", "scalar"} THEN Raise("ValueError", nothing)
    ELSE IF out.body.json = "null" THEN Return(nothing)
    ELSE IF out.body.total.t = "null" THEN Raise("TypeError", nothing)
    ELSE Return([ids |-> IF out.body.objectIDs = None THEN <<>>
                         ELSE out.body.objectIDs[1],
                 total |-> IF out.body.total.t = "absent" THEN 0
                           ELSE out.body.total.v])

\* lines 36-39
SearchIdsBody(out) ==
    LET nothing == [ids |-> <<>>, total |-> 0] IN
    IF out.kind = "neterr" THEN Raise("Timeout", nothing)
    ELSE IF RaisesForStatus(out.status) THEN Raise("HTTPError", nothing)
    ELSE IF out.body.json = "notjson" THEN Raise("JSONDecodeError", nothing)
    ELSE IF out.body.json = "scalar" THEN Raise("AttributeError", nothing)
    ELSE IF out.body.json = "null" THEN Return(nothing)
    ELSE IF out.body.total.t = "null" THEN Raise("TypeError", nothing)
    ELSE Return([ids |-> IF out.body.objectIDs = None THEN <<>>
                         ELSE out.body.objectIDs[1],
                 total |-> IF out.body.total.t = "absent" THEN 0
                           ELSE out.body.total.v])

\* line 30: @st.cache_data(ttl=60)
SearchIds(qs, h, d, out) ==
    CachedCall(searchCache, SearchKey(qs, h, d), TTL_SEARCH, SearchIdsBody(out))

(* Search responses *)

\* object identifiers the search service hands out
Oids == {1, 2}

TotalValues == {[t |-> "absent", v |-> 0], [t |-> "null", v |-> 0],
                [t |-> "int", v |-> MaxIds]}

NoSearchBody == [json |-> "notjson", objectIDs |-> None, total |-> [t |-> "absent", v |-> 0]]

\* the bodies whose objectIDs is absent, null or one of idLists
SearchBodies(idLists, totals) ==
    {[json |-> j, objectIDs |-> None, total |-> [t |-> "absent", v |-> 0]] :
        j \in {"notjson", "null", "scalar"}}
    \cup {[json |-> "object", objectIDs |-> o, total |-> t] :
        o \in {None} \cup {Some(l) : l \in idLists}, t \in totals}

SearchNetErr == [kind |-> "neterr", status |-> 0, body |-> NoSearchBody]

SearchOutcomes(idLists, totals) ==
    {SearchNetErr} \cup
    {[kind |-> "resp", status |-> st, body |-> b] :
        st \in HttpStatuses, b \in SearchBodies(idLists, totals)}

IdLists == SeqsUpTo(Oids, MaxIds)

IntTotals == {t \in TotalValues : t.t = "int"}

\* a timeout, an error status, or the one-element result <<1>>
PlainSearchOutcomes ==
    {SearchNetErr} \cup
    {[kind |-> "resp", status |-> st,
      body |-> [json |-> "object", objectIDs |-> Some(<<1>>),
                total |-> [t |-> "int", v |-> 1]]] : st \in {200, 500}}

-----------------------------------------------------------------------------
(* fetch_object (lines 41-47).  A returned value is <<>> (None),           *)
(* <<"empty">> (the record {}) or <<"record">> (a record with fields).     *)

\* lines 44-47
FetchObjectBody(out) ==
    IF out.kind = "neterr" THEN Raise("Timeout", None)
    ELSE IF out.status = 200
         THEN IF out.body = "notjson" THEN Raise("JSONDecodeError", None)
              ELSE IF out.body = "null" THEN Return(None)
              ELSE Return(Some(out.body))
         ELSE Return(None)

\* line 41: @st.cache_data(ttl=3600)
FetchObject(oid, out) ==
    CachedCall(objCache, oid, TTL_OBJECT, FetchObjectBody(out))

\* truth value of what fetch_object returned (line 83: not obj)
Truthy(obj) == obj # None /\ obj[1] # "empty"

ObjectOutcomes ==
    {[kind |-> "neterr", status |-> 0, body |-> "notjson"]} \cup
    {[kind |-> "resp", status |-> st, body |-> b] :
        st \in HttpStatuses, b \in {"notjson", "null", "empty", "record"}}

\* the object exists or it does not
PlainObjectOutcomes ==
    {[kind |-> "resp", status |-> 200, body |-> "record"],
     [kind |-> "resp", status |-> 404, body |-> "notjson"]}

-----------------------------------------------------------------------------
(* The script (lines 49-108) *)

QChars == {" ", "a"}
Queries == SeqsUpTo(QChars, MaxQLen)

\* the slider offers SLIDER_MIN..SLIDER_MAX; these values are tried
SliderChoices == {SLIDER_MIN, SLIDER_MIN + 1, SLIDER_MAX}

RunEnded == {"idle", "done", "stopped", "crashed"}

QueryIsEmpty(s) == s = <<>>

\* line 66: not q.strip()
QueryIsBlank(s) == Strip(s) = <<>>

DisplayedAll(l, n) == l

\* line 81: ids[:max_n]
Displayed(l, n) == Slice(l, n)

\* lines 85-94: the card of loop index k, drawn in column k % 3
Card(k, oid) == [idx |-> k, oid |-> oid, col |-> k % N_COLS]

Init ==
    /\ now = 0
    /\ deptCache = {}
    /\ searchCache = {}
    /\ objCache = {}
    /\ runs = 0
    /\ pc = "idle"
    /\ q = <<>>
    /\ max_n = SLIDER_MIN
    /\ has_images = TRUE
    /\ options = <<>>
    /\ mapping = [x \in {} |-> None]
    /\ dept_id = None
    /\ search_btn = FALSE
    /\ notice = "none"
    /\ exc = None
    /\ ids = <<>>
    /\ total = 0
    /\ i = 0
    /\ fetched = <<>>
    /\ rendered = <<>>
    /\ catResp = None
    /\ searchCalled = FALSE
    /\ searchReq = None
    /\ searchResp = None
    /\ objReqs = 0
    /\ objResp = None
    /\ searchHist = {}
    /\ deptHist = None

\* A script run starts (a widget changed or the button was pressed) and
\* executes lines 53-68, and lines 95-105 when the button was not pressed.
Sidebar(qs, ns, hs, cats) ==
    /\ pc \in RunEnded
    /\ runs < MaxRuns
    /\ \E nq \in qs, n \in ns, h \in hs, btn \in BOOLEAN,
          out \in Responses(deptCache, <<>>, TTL_DEPARTMENTS, cats) :
        LET call == FetchDepartments(out) IN
        /\ runs' = runs + 1
        /\ q' = nq
        /\ max_n' = n
        /\ has_images' = h
        /\ search_btn' = btn
        /\ deptCache' = call.cache
        /\ catResp' = IF call.hit THEN None ELSE Some(out)
        /\ deptHist' = IF call.hit THEN deptHist
                       ELSE Some([out |-> out, at |-> now])
        /\ ids' = <<>>
        /\ total' = 0
        /\ i' = 0
        /\ fetched' = <<>>
        /\ rendered' = <<>>
        /\ searchCalled' = FALSE
        /\ searchReq' = None
        /\ searchResp' = None
        /\ objReqs' = 0
        /\ objResp' = None
        /\ IF call.exc # "none"
           THEN /\ pc' = "crashed"
                /\ exc' = <<"fetch_departments", call.exc>>
                /\ notice' = "none"
                /\ options' = <<>>
                /\ mapping' = [x \in {} |-> None]
                /\ dept_id' = None
           ELSE \E c \in 1..Len(call.val.options) :
                /\ exc' = None
                /\ options' = call.val.options
                /\ mapping' = call.val.mapping
                /\ dept_id' = call.val.mapping[call.val.options[c]]
                /\ IF ~btn
                   THEN pc' = "done" /\ notice' = "hint"
                   ELSE IF QueryIsBlank(nq)
                        THEN pc' = "stopped" /\ notice' = "warning"
                        ELSE pc' = "search" /\ notice' = "none"
    /\ UNCHANGED <<now, searchCache, objCache, searchHist>>

\* lines 70-78
Search(outs) ==
    /\ pc = "search"
    /\ \E out \in Responses(searchCache, SearchKey(Strip(q), has_images, dept_id),
                           TTL_SEARCH, outs) :
        LET call == SearchIds(Strip(q), has_images, dept_id, out)
            key == <<Strip(q), has_images, dept_id>>
        IN
        /\ searchCalled' = TRUE
        /\ searchCache' = call.cache
        /\ searchReq' = IF call.hit THEN None
                        ELSE Some(SearchParams(Strip(q), has_images, dept_id))
        /\ searchResp' = IF call.hit THEN None
                         ELSE Some([kind |-> out.kind, status |-> out.status])
        /\ searchHist' = IF call.hit \/ call.exc # "none" THEN searchHist
                         ELSE {e \in searchHist : e.key # key}
                              \cup {[key |-> key, val |-> call.val, at |-> now]}
        /\ IF call.exc # "none"
           THEN /\ pc' = "crashed"
                /\ exc' = <<"search_ids", call.exc>>
                /\ UNCHANGED <<ids, total, notice>>
           ELSE /\ exc' = None
                /\ ids' = call.val.ids
                /\ total' = call.val.total
                /\ IF call.val.ids = <<>>
                   THEN pc' = "stopped" /\ notice' = "no_results"
                   ELSE pc' = "loop" /\ notice' = "none"
    /\ UNCHANGED <<now, deptCache, objCache, runs, q, max_n, has_images, options,
                   mapping, dept_id, search_btn, i, fetched, rendered, catResp,
                   objReqs, objResp, deptHist>>

\* lines 81-94: one iteration of the render loop
FetchStep(outs) ==
    /\ pc = "loop"
    /\ i < Len(Displayed(ids, max_n))
    /\ \E out \in Responses(objCache, Displayed(ids, max_n)[i + 1], TTL_OBJECT, outs) :
        LET oid == Displayed(ids, max_n)[i + 1]
            call == FetchObject(oid, out)
        IN
        /\ objCache' = call.cache
        /\ objReqs' = IF call.hit THEN objReqs ELSE objReqs + 1
        /\ objResp' = IF call.hit THEN None ELSE Some(out)
        /\ IF call.exc # "none"
           THEN /\ pc' = "crashed"
                /\ exc' = <<"fetch_object", call.exc>>
                /\ UNCHANGED <<i, fetched, rendered>>
           ELSE /\ exc' = None
                /\ fetched' = Append(fetched, call.val)
                /\ rendered' = IF Truthy(call.val)
                               THEN Append(rendered, Card(i, oid))
                               ELSE rendered
                /\ i' = i + 1
                /\ pc' = IF i + 1 < Len(Displayed(ids, max_n)) THEN "loop" ELSE "done"
    /\ UNCHANGED <<now, deptCache, searchCache, runs, q, max_n, has_images, options,
                   mapping, dept_id, search_btn, notice, ids, total, catResp,
                   searchCalled, searchReq, searchResp, searchHist, deptHist>>

\* time passes
Tick(d, limit) ==
    /\ now + d <= limit
    /\ now' = now + d
    /\ UNCHANGED <<deptCache, searchCache, objCache, runs, pc, q, max_n,
                   has_images, options, mapping, dept_id, search_btn, notice, exc,
                   ids, total, i, fetched, rendered, catResp, searchCalled,
                   searchReq, searchResp, objReqs, objResp, searchHist, deptHist>>

(* The program under five environments.  Every environment runs the same   *)
(* script; each widens the inputs and responses one group of properties    *)
(* depends on and keeps the others plain.                                  *)

\* rendering: every id list, every slider choice, every object response
Next ==
    \/ Sidebar({<<"a">>}, SliderChoices, {TRUE}, {NetErr})
    \/ Search(SearchOutcomes(IdLists, IntTotals))
    \/ FetchStep(ObjectOutcomes)

Spec == Init /\ [][Next]_vars

\* the keyword: every query string
NextQuery ==
    \/ Sidebar(Queries, {SLIDER_MIN}, {TRUE}, {NetErr})
    \/ Search(PlainSearchOutcomes)
    \/ FetchStep(PlainObjectOutcomes)

SpecQuery == Init /\ [][NextQuery]_vars

\* the search request: every filter, every search response
NextSearch ==
    \/ Sidebar({<<"a">>}, {SLIDER_MIN}, BOOLEAN, PlainCatalogs)
    \/ Search(SearchOutcomes({<<1>>}, TotalValues))
    \/ FetchStep(PlainObjectOutcomes)

SpecSearch == Init /\ [][NextSearch]_vars

\* the caches: time passes, in steps shorter than each lifetime
NextCache ==
    \/ Sidebar({<<"a">>, <<" ", "a">>}, {SLIDER_MIN}, {TRUE}, PlainCatalogs)
    \/ Search(PlainSearchOutcomes)
    \/ FetchStep(PlainObjectOutcomes)
    \/ Tick(TickShort, MaxTime)
    \/ Tick(TickLong, MaxTimeHour)

SpecCache == Init /\ [][NextCache]_vars

\* the catalog: every catalog response
NextCatalog == Sidebar({<<>>}, {SLIDER_MIN}, {TRUE}, CatalogOutcomes)

SpecCatalog == Init /\ [][NextCatalog]_vars

-----------------------------------------------------------------------------
(* Properties *)

\* a 2xx status
Is2xx(status) == status >= 200 /\ status < 300

\* the search key of the current run
CurrentKey == <<Strip(q), has_images, dept_id>>

\* a string of whitespace only (the empty string included)
AllWhitespace(s) == \A k \in 1..Len(s) : s[k] \in Whitespace

\* a body that is not an object holding a list of records under "departments"
Malformed(b) ==
    ~(b.json = "object" /\ b.depts = "list" /\ \A k \in 1..Len(b.list) : b.list[k].rec)

\* a catalog response that is a network error, a non-2xx status or malformed
Unusable(out) ==
    out.kind = "neterr" \/ ~Is2xx(out.status) \/ Malformed(out.body)

\* a search response that is a timeout or a non-2xx status
SearchFailed(head) == head.kind = "neterr" \/ ~Is2xx(head.status)

\* C1: a search_ids call whose key got a network result less than TTL_SEARCH
\* ago sends no request and returns that result; a call whose key has no
\* such result (none yet, or the window has expired) sends a request.
C1_SearchCacheWindow ==
    [][(pc = "search" /\ pc' # "search") =>
        LET last == {e \in searchHist : e.key = CurrentKey /\ now - e.at < TTL_SEARCH}
        IN  /\ last # {} =>
                /\ searchReq' = None
                /\ exc' = None
                /\ \A e \in last : ids' = e.val.ids /\ total' = e.val.total
            /\ last = {} => searchReq' # None]_vars

\* a second call answered from the cache, some time after the first
C1_Witness ==
    /\ searchCalled
    /\ searchReq = None
    /\ ids # <<>>
    /\ \E e \in searchHist : e.key = CurrentKey /\ e.at < now /\ e.val.ids = ids

C3_FetchObjectNeverRaises ==
    (objResp # None /\ (objResp[1].status # 200 \/ objResp[1].body # "notjson")) =>
        /\ exc = None
        /\ pc \in {"loop", "done"}
        /\ Len(fetched) = i
        /\ i > 0
        /\ (objResp[1].kind = "neterr" \/ objResp[1].status # 200)
              => fetched[i] = None
        /\ (objResp[1].kind = "resp" /\ objResp[1].status = 200)
              => fetched[i] = IF objResp[1].body = "null" THEN None
                              ELSE Some(objResp[1].body)

\* C4: a run whose query is empty or whitespace only never invokes
\* search_ids and sends no search or object request; with the button pressed
\* it warns and halts.
C4_BlankQueryNoSearch ==
    (pc # "idle" /\ AllWhitespace(q)) =>
        /\ ~searchCalled
        /\ searchReq = None
        /\ objReqs = 0
        /\ search_btn => (pc = "stopped" /\ notice = "warning")

\* the button pressed on a query of spaces
C4_Witness ==
    /\ search_btn
    /\ q # <<>>
    /\ AllWhitespace(q)
    /\ pc = "stopped"
    /\ notice = "warning"

\* C5: when the loop has finished, the number of cards is
\* min(max_n, len(ids)) minus the number of fetches that returned None.
C5_CardCount ==
    pc = "done" /\ search_btn =>
        Len(rendered) = Min(max_n, Len(ids))
                          - Cardinality({k \in 1..Len(fetched) : fetched[k] = None})

\* C6: every card belongs to an index below max_n, shows the id at that
\* index, and cards are drawn in increasing index order.
C6_CardOrder ==
    /\ \A k \in 1..Len(rendered) :
        /\ rendered[k].idx < max_n
        /\ rendered[k].idx < Len(ids)
        /\ rendered[k].oid = ids[rendered[k].idx + 1]
    /\ \A j, k \in 1..Len(rendered) : j < k => rendered[j].idx < rendered[k].idx

\* a list longer than max_n, truncated to two cards
C6_Witness ==
    /\ pc = "done"
    /\ Len(ids) > max_n
    /\ Len(rendered) = max_n
    /\ max_n > 1

\* C7: the request carries q, hasImages, and departmentId exactly when
\* dept_id is not None, with that value.
C7_RequestParams ==
    searchReq # None =>
        /\ searchReq[1].q = Strip(q)
        /\ searchReq[1].hasImages = has_images
        /\ searchReq[1].departmentId = dept_id

LabelsDistinct ==
    /\ \A j, k \in 1..Len(options) : j # k => options[j] # options[k]
    /\ Cardinality(DOMAIN mapping) = Len(options)

\* C9 (as stated): for every catalog the labels are pairwise distinct.
C9_LabelsDistinctAlways == pc # "idle" => LabelsDistinct

\* the departmentId values of the catalog's entries are pairwise distinct integers
DistinctIds(l) ==
    /\ \A k \in 1..Len(l) : l[k].rec /\ l[k].id # None
    /\ \A j, k \in 1..Len(l) : j # k => l[j].id # l[k].id

\* C9 (amended): when the departmentId values of the catalog's entries are
\* pairwise distinct integers, the labels are pairwise distinct, mapping has
\* len(options) keys and each label maps to its entry's identifier.
C9_LabelsDistinctIds ==
    (pc # "idle" /\ exc = None /\ deptHist # None
        /\ DistinctIds(deptHist[1].out.body.list)) =>
        /\ LabelsDistinct
        /\ ~Unusable(deptHist[1].out) =>
            /\ Len(options) = Len(deptHist[1].out.body.list) + 1
            /\ \A k \in 2..Len(options) :
                mapping[options[k]] = deptHist[1].out.body.list[k - 1].id

\* two departments of the same name and different identifiers
C9_Witness ==
    /\ Len(options) = 3
    /\ deptHist # None
    /\ DistinctIds(deptHist[1].out.body.list)
    /\ deptHist[1].out.body.list[1].name = deptHist[1].out.body.list[2].name

\* C10: after a failed catalog fetch, a run started less than
\* TTL_DEPARTMENTS later sends no catalog request and gets the fallback; a run
\* started later sends the request again.
C10_FallbackCached ==
    [][(pc \in RunEnded /\ runs' = runs + 1
            /\ deptHist # None /\ Unusable(deptHist[1].out)) =>
        IF now - deptHist[1].at < TTL_DEPARTMENTS
        THEN /\ catResp' = None
             /\ options' = <<ALL>>
             /\ dept_id' = None
        ELSE catResp' # None]_vars

\* a later run, within the hour of a failed fetch, that sent no request
C10_Witness ==
    /\ runs > 1
    /\ catResp = None
    /\ deptHist # None
    /\ Unusable(deptHist[1].out)
    /\ deptHist[1].at < now
    /\ options = <<ALL>>

====
